---- MODULE Spec2Model ----
(***************************************************************************)
(* Model of the CNPJ batch lookup scripts cnpj_request.py ("v1") and       *)
(* cnpj_requestv2.py ("v2"): identifier loading, the retry/backoff loop of *)
(* query_receitaws_api, the response normaliser and the batch driver main. *)
(* Text is modelled as sequences of one-character strings, a dict as a     *)
(* function from keys to values, and an Optional value as a sequence of    *)
(* length 0 (None) or 1.                                                   *)
(***************************************************************************)
EXTENDS Integers, Sequences, FiniteSets, TLC

\* ------------------------------------------------------------------------
\* Program constants
\* ------------------------------------------------------------------------
MAX_API_RETRIES == 5
MIN_INTERVAL_BETWEEN_REQUESTS == 20
CNPJ_WIDTH == 14
RATE_LIMIT_UNIT == 5
ERROR_UNIT == 2

\* ------------------------------------------------------------------------
\* Bounds of the model
\* ------------------------------------------------------------------------
MaxLines == 2
MaxPartners == 2
MaxDur == 1
MaxStart == 1
MaxDigitRun == 15
MaxTail == 2

\* ------------------------------------------------------------------------
\* Text helpers
\* ------------------------------------------------------------------------
Digits == {"0", "1", "2", "3", "4", "5", "6", "7", "8", "9"}
Whitespace == {" ", "\n", "\t", "\r"}

IsDigit(c) == c \in Digits

Rep(c, n) == [i \in 1..n |-> c]

SeqsUpTo(S, n) == UNION {[1..k -> S] : k \in 0..n}

RECURSIVE LStrip(_)
LStrip(s) ==
    IF s = <<>> THEN <<>>
    ELSE IF Head(s) \in Whitespace THEN LStrip(Tail(s)) ELSE s

RECURSIVE RStrip(_)
RStrip(s) ==
    IF s = <<>> THEN <<>>
    ELSE IF s[Len(s)] \in Whitespace THEN RStrip(SubSeq(s, 1, Len(s) - 1)) ELSE s

\* str.strip()
Strip(s) == RStrip(LStrip(s))

\* re.sub(r'\D', '', s)
ReSubNonDigits(s) == SelectSeq(s, IsDigit)

\* A plausible slip: padding to the width without regard to the sign rule
\* and one character short.
ZfillShort(s, w) ==
    IF Len(s) >= w - 1 THEN s ELSE Rep("0", (w - 1) - Len(s)) \o s

\* str.zfill(w): left-pad with '0' up to width w, after a leading sign;
\* a string already w long or longer is returned unchanged.
Zfill(s, w) ==
    IF Len(s) >= w THEN s
    ELSE IF s # <<>> /\ Head(s) \in {"+", "-"}
         THEN <<Head(s)>> \o Rep("0", w - Len(s)) \o Tail(s)
         ELSE Rep("0", w - Len(s)) \o s

\* One line of the file -> zero or one identifier.
clean_line_v1(line) ==
    LET clean_cnpj_line == Strip(line) IN
    IF clean_cnpj_line # <<>>
    THEN <<Zfill(ReSubNonDigits(clean_cnpj_line), CNPJ_WIDTH)>>
    ELSE <<>>

clean_line_v2(line) ==
    LET num == ReSubNonDigits(Strip(line)) IN
    IF num # <<>> THEN <<Zfill(num, CNPJ_WIDTH)>> ELSE <<>>

clean_line(v, line) == IF v = "v1" THEN clean_line_v1(line) ELSE clean_line_v2(line)

RECURSIVE load_and_clean_cnpjs(_, _)
load_and_clean_cnpjs(v, lines) ==
    IF lines = <<>> THEN <<>>
    ELSE clean_line(v, Head(lines)) \o load_and_clean_cnpjs(v, Tail(lines))

\* ------------------------------------------------------------------------
\* Dicts, Optional values and the payloads the API can answer with
\* ------------------------------------------------------------------------
None == <<>>
Some(x) == <<x>>

\* dict.get(key, default)
Get(d, k, default) == IF k \in DOMAIN d THEN d[k] ELSE default

\* {**f, **g}: the keys of g override those of f
Merge(f, g) == [k \in (DOMAIN f) \cup (DOMAIN g) |-> IF k \in DOMAIN g THEN g[k] ELSE f[k]]

EmptyDict == [k \in {} |-> <<>>]

NA == <<"N", "/", "A">>
OK == <<"O", "K">>
ERROR == <<"E", "R", "R", "O", "R">>
ACME == <<"A", "C", "M", "E">>
PHONE == <<"(", "1", "1", ")">>

Partners ==
    { [nome |-> <<" ", "A", "n", "n">>, qual |-> <<"4", "9">>],
      [nome |-> <<" ", " ">>] }

QsaParts == {EmptyDict} \cup {[qsa |-> l] : l \in SeqsUpTo(Partners, MaxPartners)}

FullCompany ==
    [nome |-> ACME, situacao |-> <<"A">>, municipio |-> <<"S", "P">>,
     uf |-> <<"S", "P">>, telefone |-> PHONE]

\* The JSON bodies a 2xx answer can carry: an empty object, bare and full
\* error answers, and OK answers with every partner list (or none).
Payloads ==
    {EmptyDict, [status |-> ERROR], Merge(FullCompany, [status |-> ERROR])}
    \cup {Merge([status |-> OK], q) : q \in {EmptyDict, [qsa |-> <<>>]}}
    \cup {Merge(Merge(FullCompany, [status |-> OK]), q) : q \in QsaParts}

\* `not api_data`: None or an empty dict
IsFalsy(api_data) == api_data = None \/ DOMAIN api_data[1] = {}

IsErrorPayload(api_data) ==
    IsFalsy(api_data) \/ Get(api_data[1], "status", None) = ERROR

OrNA(s) == IF s # <<>> THEN s ELSE NA

\* A plausible slip: the loop over the partner list misses the last entry.
RECURSIVE partner_records_v1_droplast(_, _)
partner_records_v1_droplast(cnpj, qsa) ==
    IF Len(qsa) <= 1 THEN <<>>
    ELSE << [cnpj |-> cnpj,
             nome_qsa |-> OrNA(Strip(Get(Head(qsa), "nome", <<>>))),
             qualificacao_qsa |-> OrNA(Strip(Get(Head(qsa), "qual", <<>>)))] >>
         \o partner_records_v1_droplast(cnpj, Tail(qsa))

\* cnpj_request.py, the for loop over qsa_list_from_api
RECURSIVE partner_records_v1(_, _)
partner_records_v1(cnpj, qsa) ==
    IF qsa = <<>> THEN <<>>
    ELSE << [cnpj |-> cnpj,
             nome_qsa |-> OrNA(Strip(Get(Head(qsa), "nome", <<>>))),
             qualificacao_qsa |-> OrNA(Strip(Get(Head(qsa), "qual", <<>>)))] >>
         \o partner_records_v1(cnpj, Tail(qsa))

\* A plausible slip: no placeholder record when there is nothing to report.
process_api_response_v1_noplaceholder(cnpj, api_data) ==
    IF IsErrorPayload(api_data) THEN <<>>
    ELSE partner_records_v1(cnpj, Get(api_data[1], "qsa", <<>>))

placeholder_v1(cnpj) == [cnpj |-> cnpj, nome_qsa |-> NA, qualificacao_qsa |-> NA]

process_api_response_v1(cnpj, api_data) ==
    IF IsErrorPayload(api_data) THEN <<placeholder_v1(cnpj)>>
    ELSE LET qsa_list_from_api == Get(api_data[1], "qsa", <<>>) IN
         IF qsa_list_from_api # <<>>
         THEN partner_records_v1(cnpj, qsa_list_from_api)
         ELSE <<placeholder_v1(cnpj)>>

\* cnpj_requestv2.py, the for loop over api_data.get('qsa', [])
RECURSIVE socios_v2(_, _)
socios_v2(cnpj, qsa) ==
    IF qsa = <<>> THEN <<>>
    ELSE << [cnpj |-> cnpj, nome_qsa |-> OrNA(Strip(Get(Head(qsa), "nome", <<>>)))] >>
         \o socios_v2(cnpj, Tail(qsa))

process_api_response_v2(cnpj, api_data) ==
    IF IsErrorPayload(api_data) THEN <<[cnpj |-> cnpj, nome_qsa |-> NA]>>
    ELSE LET socios_list == socios_v2(cnpj, Get(api_data[1], "qsa", <<>>)) IN
         IF socios_list = <<>> THEN <<[cnpj |-> cnpj, nome_qsa |-> NA]>>
         ELSE socios_list

extract_company_details(api) ==
    [nome_empresa |-> Get(api, "nome", NA),
     situacao |-> Get(api, "situacao", NA),
     cidade |-> Get(api, "municipio", NA),
     estado |-> Get(api, "uf", NA),
     telefone_receita |-> Get(api, "telefone", NA)]

\* "/".join(names)
RECURSIVE Join(_, _)
Join(names, sep) ==
    IF names = <<>> THEN <<>>
    ELSE IF Len(names) = 1 THEN names[1]
    ELSE names[1] \o sep \o Join(Tail(names), sep)

\* What get_telefone_site_empresa can return: a scraped number or 'N/A'.
SiteLookupResults == {NA, PHONE}

\* cnpj_requestv2.py main, the body of the loop after the query returned
detailed_record_v2(cnpj, api_data, telefone_site) ==
    LET detalhes == extract_company_details(IF api_data = None THEN EmptyDict ELSE api_data[1])
        socios == process_api_response_v2(cnpj, api_data)
        nomes_socios == [i \in 1..Len(socios) |-> socios[i].nome_qsa]
        dono == Join(nomes_socios, <<"/">>)
    IN  Merge(detalhes, [cnpj |-> cnpj, dono |-> dono, telefone_site |-> telefone_site])

csv_field_names_v1 == <<"cnpj", "nome_qsa", "qualificacao_qsa">>
fieldnames_v2 ==
    <<"nome_empresa", "situacao", "cidade", "estado", "cnpj", "dono",
      "telefone_site", "telefone_receita">>

\* csv.DictWriter: one row per record, the values in header order
Row(rec, fields) == [i \in 1..Len(fields) |-> rec[fields[i]]]

\* ------------------------------------------------------------------------
\* The retry loop's arithmetic
\* ------------------------------------------------------------------------
\* A plausible slip: the multiplier is never doubled.
next_backoff_stuck(b) == b

\* backoff_factor *= 2
next_backoff(b) == b * 2

\* A plausible slip: the multiplier of the previous identifier is kept.
initial_backoff_carried(prev) == IF prev > 1 THEN prev ELSE 1

\* backoff_factor = 1 at the start of every query_receitaws_api call
initial_backoff(prev) == 1

\* A plausible slip: HTTP 429 retries in the same attempt slot.
attempt_after_429_same_slot(a) == a

\* `continue` after HTTP 429: the for loop moves to the next attempt number
attempt_after_429(a) == a + 1

\* A plausible slip: an off-by-one in the error path's retry test.
may_retry_after_error_off_by_one(a) == a <= MAX_API_RETRIES

\* if attempt_number < MAX_API_RETRIES
may_retry_after_error(a) == a < MAX_API_RETRIES

sleep_after_429(b) == b * RATE_LIMIT_UNIT
sleep_after_error(b) == b * ERROR_UNIT

\* ------------------------------------------------------------------------
\* State
\* ------------------------------------------------------------------------
VARIABLES
    variant,                 \* "v1": cnpj_request.py, "v2": cnpj_requestv2.py
    file,                    \* None (missing file) or Some(sequence of raw lines)
    pc,                      \* position of main
    cnpjs_to_process,        \* the loaded identifiers
    index,                   \* 1-based position in cnpjs_to_process
    attempt_number,          \* loop variable of query_receitaws_api
    backoff_factor,          \* multiplier of query_receitaws_api
    since_stamp,             \* time.monotonic() - last_request_timestamp (last_ts),
                             \* saturated at MIN_INTERVAL_BETWEEN_REQUESTS
    api_response_data,       \* what the query returned: None or Some(payload)
    all_results,             \* all_qsa_results / detailed_results
    output_file,             \* None or Some(header and rows written)
    responses,               \* history: answers to the current identifier's requests
    waits,                   \* history: backoff sleeps of the current identifier
    since_request,           \* history: None or Some(time since the last request
                             \* completed), saturated likewise
    request_gap,             \* history: None or Some(since_request when the last
                             \* request was sent)
    hist                     \* history: per processed identifier, what the query returned

vars ==
    <<variant, file, pc, cnpjs_to_process, index, attempt_number, backoff_factor, since_stamp, api_response_data, all_results, output_file,
      responses, waits, since_request, request_gap, hist>>

\* Raw lines as read from the file, line terminator included.
BatchLines ==
    { <<"7", "\n">>, <<".", "8", "\n">>, <<"-", "/", "\n">>, <<" ", "\n">> }

Tails == SeqsUpTo({"8", ".", " "}, MaxTail)

Lines == {Rep("7", k) \o t \o <<"\n">> : k \in 0..MaxDigitRun, t \in Tails}

\* The program compares clock differences with the minimum interval only, so
\* the model keeps the differences, saturated at that interval.
Cap(t) == IF t > MIN_INTERVAL_BETWEEN_REQUESTS THEN MIN_INTERVAL_BETWEEN_REQUESTS ELSE t

\* time.monotonic() at the start of the run (last_request_timestamp = 0.0)
StartTimes == {Cap(k * MIN_INTERVAL_BETWEEN_REQUESTS) : k \in 0..MaxStart}

\* d time units pass
Elapse(d) ==
    /\ since_stamp' = Cap(since_stamp + d)
    /\ since_request' = IF since_request = None THEN None ELSE Some(Cap(since_request[1] + d))

Durations == 0..MaxDur

InitRest ==
    /\ variant \in {"v1", "v2"}
    /\ pc = "start"
    /\ cnpjs_to_process = <<>>
    /\ index = 0
    /\ attempt_number = 0
    /\ backoff_factor = 0
    /\ api_response_data = None
    /\ all_results = <<>>
    /\ output_file = None
    /\ responses = <<>>
    /\ waits = <<>>
    /\ since_request = None
    /\ request_gap = None
    /\ hist = <<>>

Init ==
    /\ file \in {None} \cup {Some(ls) : ls \in SeqsUpTo(BatchLines, MaxLines)}
    /\ since_stamp \in StartTimes
    /\ InitRest

\* One raw line per file, from a wider set of lines: the loader on its own.
InitLoad ==
    /\ file \in {Some(<<l>>) : l \in Lines}
    /\ since_stamp = 0
    /\ InitRest

\* ------------------------------------------------------------------------
\* Actions
\* ------------------------------------------------------------------------
\* main: load the identifiers; nothing to process ends the run.
Load ==
    /\ pc = "start"
    /\ cnpjs_to_process' =
          IF file = None THEN <<>> ELSE load_and_clean_cnpjs(variant, file[1])
    /\ IF cnpjs_to_process' = <<>>
       THEN pc' = "done" /\ index' = index
       ELSE pc' = "pace" /\ index' = 1
    /\ UNCHANGED <<variant, file, attempt_number, backoff_factor, since_stamp, api_response_data, all_results, output_file,
                   responses, waits, since_request, request_gap, hist>>

\* main: the pacing wait before the query of one identifier, then the entry
\* of query_receitaws_api. v1 stamps the time before the query, v2 after it.
Pace ==
    /\ pc = "pace"
    /\ LET time_since_last_request == since_stamp
           wait_duration ==
               IF time_since_last_request < MIN_INTERVAL_BETWEEN_REQUESTS
               THEN MIN_INTERVAL_BETWEEN_REQUESTS - time_since_last_request
               ELSE 0
       IN  /\ since_stamp' = IF variant = "v1" THEN 0 ELSE Cap(since_stamp + wait_duration)
           /\ since_request' =
                 IF since_request = None THEN None
                 ELSE Some(Cap(since_request[1] + wait_duration))
    /\ backoff_factor' = initial_backoff(backoff_factor)
    /\ attempt_number' = 1
    /\ responses' = <<>>
    /\ waits' = <<>>
    /\ pc' = "request"
    /\ UNCHANGED <<variant, file, cnpjs_to_process, index, api_response_data,
                   all_results, output_file, request_gap, hist>>

\* One session.get that takes d time units, followed by a sleep of s: the
\* request starts now, completes d later, and s more pass before the next step.
RequestThenSleep(d, s) ==
    /\ request_gap' = since_request
    /\ since_request' = Some(Cap(s))
    /\ since_stamp' = Cap(since_stamp + d + s)

\* The same when query_receitaws_api then returns to main: v2 stamps the
\* time on return (last_ts = time.monotonic() after the call).
RequestThenReturn(d, s, value) ==
    /\ request_gap' = since_request
    /\ since_request' = Some(Cap(s))
    /\ since_stamp' = IF variant = "v2" THEN 0 ELSE Cap(since_stamp + d + s)
    /\ api_response_data' = value
    /\ pc' = "process"

\* session.get answers 2xx with a JSON payload after d time units.
RequestOK ==
    /\ pc = "request"
    /\ \E d \in Durations, payload \in Payloads :
          /\ responses' = Append(responses, [code |-> "ok", body |-> Some(payload)])
          /\ RequestThenReturn(d, 0, Some(payload))
    /\ UNCHANGED <<variant, file, cnpjs_to_process, index, attempt_number,
                   backoff_factor, all_results, output_file, waits, hist>>

\* session.get answers HTTP 429: sleep, double the multiplier, next attempt;
\* after the last attempt the loop ends and the function returns None.
Request429 ==
    /\ pc = "request"
    /\ \E d \in Durations :
          LET sleep_duration == sleep_after_429(backoff_factor) IN
          /\ responses' = Append(responses, [code |-> "429", body |-> None])
          /\ waits' = Append(waits, [after |-> "429", dur |-> sleep_duration])
          /\ backoff_factor' = next_backoff(backoff_factor)
          /\ IF attempt_number < MAX_API_RETRIES
             THEN /\ attempt_number' = attempt_after_429(attempt_number)
                  /\ RequestThenSleep(d, sleep_duration)
                  /\ UNCHANGED <<pc, api_response_data>>
             ELSE /\ attempt_number' = attempt_number
                  /\ RequestThenReturn(d, sleep_duration, None)
    /\ UNCHANGED <<variant, file, cnpjs_to_process, index, all_results,
                   output_file, hist>>

\* session.get raises a RequestException (transport error, timeout) or
\* raise_for_status raises for another 4xx/5xx status.
RequestError ==
    /\ pc = "request"
    /\ \E d \in Durations :
          /\ responses' = Append(responses, [code |-> "error", body |-> None])
          /\ IF may_retry_after_error(attempt_number)
             THEN LET sleep_duration == sleep_after_error(backoff_factor) IN
                  /\ waits' = Append(waits, [after |-> "error", dur |-> sleep_duration])
                  /\ backoff_factor' = next_backoff(backoff_factor)
                  /\ attempt_number' = attempt_number + 1
                  /\ RequestThenSleep(d, sleep_duration)
                  /\ UNCHANGED <<pc, api_response_data>>
             ELSE /\ RequestThenReturn(d, 0, None)
                  /\ UNCHANGED <<waits, backoff_factor, attempt_number>>
    /\ UNCHANGED <<variant, file, cnpjs_to_process, index, all_results,
                   output_file, hist>>

\* main: normalise what the query returned, accumulate, go to the next
\* identifier or to the writer. v2 also runs the site phone lookup, which
\* takes d time units.
Process ==
    /\ pc = "process"
    /\ LET cnpj_value == cnpjs_to_process[index] IN
       \E telefone_site \in SiteLookupResults, d \in Durations :
          /\ IF variant = "v1"
             THEN /\ telefone_site = NA
                  /\ d = 0
                  /\ all_results' =
                        all_results \o process_api_response_v1(cnpj_value, api_response_data)
             ELSE /\ all_results' =
                        Append(all_results,
                               detailed_record_v2(cnpj_value, api_response_data, telefone_site))
          /\ Elapse(d)
          /\ hist' = Append(hist, [result |-> api_response_data,
                                   first |-> Len(all_results) + 1,
                                   n |-> Len(all_results') - Len(all_results)])
    /\ IF index < Len(cnpjs_to_process)
       THEN index' = index + 1 /\ pc' = "pace"
       ELSE index' = index /\ pc' = "write"
    /\ UNCHANGED <<variant, file, cnpjs_to_process, attempt_number, backoff_factor,
                   api_response_data, output_file, responses, waits, request_gap>>

\* main: write the CSV file; a failure to write is logged and the run ends.
Write ==
    /\ pc = "write"
    /\ \E written \in BOOLEAN :
          LET fields == IF variant = "v1" THEN csv_field_names_v1 ELSE fieldnames_v2 IN
          output_file' =
             IF written
             THEN Some([header |-> fields,
                        rows |-> [i \in 1..Len(all_results) |-> Row(all_results[i], fields)]])
             ELSE None
    /\ pc' = "done"
    /\ UNCHANGED <<variant, file, cnpjs_to_process, index, attempt_number, backoff_factor,
                   since_stamp, api_response_data, all_results,
                   responses, waits, since_request, request_gap, hist>>

Next ==
    \/ Load
    \/ Pace
    \/ RequestOK
    \/ Request429
    \/ RequestError
    \/ Process
    \/ Write

Spec == Init /\ [][Next]_vars

NextLoad == Load

SpecLoad == InitLoad /\ [][NextLoad]_vars

\* ------------------------------------------------------------------------
\* Vocabulary of the properties
\* ------------------------------------------------------------------------
Loaded == pc # "start"
Finished == pc = "done"

AllDigits(s) == \A i \in 1..Len(s) : s[i] \in Digits
NumDigits(s) == Cardinality({i \in 1..Len(s) : s[i] \in Digits})
HasDigit(s) == \E i \in 1..Len(s) : s[i] \in Digits
NonEmptyLine(l) == \E i \in 1..Len(l) : l[i] \notin Whitespace
Max(a, b) == IF a >= b THEN a ELSE b

RECURSIVE Pow2(_)
Pow2(n) == IF n = 0 THEN 1 ELSE 2 * Pow2(n - 1)

\* The identifier the specification assigns to a raw line: its digits, in
\* order, behind as many zeros as 14 characters need.
RECURSIVE DigitsOf(_)
DigitsOf(l) ==
    IF l = <<>> THEN <<>>
    ELSE IF Head(l) \in Digits THEN <<Head(l)>> \o DigitsOf(Tail(l)) ELSE DigitsOf(Tail(l))

Normalized(l) ==
    LET ds == DigitsOf(l) IN
    IF Len(ds) >= 14 THEN ds ELSE [i \in 1..(14 - Len(ds)) |-> "0"] \o ds

FileLines == IF file = None THEN <<>> ELSE file[1]

RecordsOf(c) == LET Carries(r) == r.cnpj = c IN SelectSeq(all_results, Carries)

Occurrences(c) == Cardinality({i \in 1..Len(cnpjs_to_process) : cnpjs_to_process[i] = c})

\* Every field of record r other than the identifier is the placeholder.
AllPlaceholder(r) == \A k \in (DOMAIN r) \ {"cnpj"} : r[k] = NA

IsAbsent(res) == res = None
HasErrorStatus(res) ==
    res # None /\ "status" \in DOMAIN res[1] /\ res[1]["status"] = ERROR
PartnersOf(res) ==
    IF res # None /\ "qsa" \in DOMAIN res[1] THEN res[1]["qsa"] ELSE <<>>

\* The name an output carries for partner entry p.
ExpectedName(p) ==
    IF "nome" \in DOMAIN p /\ Strip(p["nome"]) # <<>> THEN Strip(p["nome"]) ELSE NA
ExpectedQual(p) ==
    IF "qual" \in DOMAIN p /\ Strip(p["qual"]) # <<>> THEN Strip(p["qual"]) ELSE NA

Codes == [i \in 1..Len(responses) |-> responses[i].code]
AllCode(c, n) == \A i \in 1..n : responses[i].code = c
AllFailed == \A i \in 1..Len(responses) : responses[i].code \in {"429", "error"}

TypeOK ==
    /\ pc \in {"start", "pace", "request", "process", "write", "done"}
    /\ attempt_number \in 0..MAX_API_RETRIES
    /\ Len(hist) <= Len(cnpjs_to_process)

\* ------------------------------------------------------------------------
\* C1: identifiers produced by load_and_clean_cnpjs
\* ------------------------------------------------------------------------
\* C1 as stated: every identifier the loader produces is exactly 14
\* characters long and consists only of digits, whatever the line contains.
C1_Exactly14Digits ==
    Loaded =>
       \A i \in 1..Len(cnpjs_to_process) :
          Len(cnpjs_to_process[i]) = 14 /\ AllDigits(cnpjs_to_process[i])

\* C1 amended: every identifier the loader produces consists only of digits
\* and is at least 14 characters long; it is the line's digits behind
\* leading zeros, so its length is the larger of 14 and the number of digits
\* of the line (exactly 14 when the line has at most 14 digits). v1 makes
\* an identifier of every non-blank line, v2 of every line with a digit.
C1_DigitsPaddedTo14 ==
    Loaded =>
       /\ \A i \in 1..Len(cnpjs_to_process) :
             /\ AllDigits(cnpjs_to_process[i])
             /\ Len(cnpjs_to_process[i]) >= 14
       /\ Len(FileLines) = 1 =>
             LET l == FileLines[1]
                 made == IF variant = "v1" THEN NonEmptyLine(l) ELSE HasDigit(l)
             IN  /\ Len(cnpjs_to_process) = (IF made THEN 1 ELSE 0)
                 /\ made =>
                       /\ Len(cnpjs_to_process[1]) = Max(14, NumDigits(l))
                       /\ cnpjs_to_process[1] = Normalized(l)

\* C1 witness: a line with more than 14 digits has been loaded.
C1_Witness ==
    /\ Loaded
    /\ Len(FileLines) = 1
    /\ NumDigits(FileLines[1]) > 14
    /\ Len(cnpjs_to_process) = 1
    /\ Len(cnpjs_to_process[1]) = NumDigits(FileLines[1])

\* ------------------------------------------------------------------------
\* C2: no identifier is dropped
\* ------------------------------------------------------------------------
\* C2 as stated: when the run has finished, every non-empty line of the
\* input file has at least one output record carrying its normalized
\* identifier.
C2_EveryNonEmptyLine ==
    Finished =>
       \A i \in 1..Len(FileLines) :
          NonEmptyLine(FileLines[i]) =>
             \E j \in 1..Len(all_results) : all_results[j].cnpj = Normalized(FileLines[i])

\* C2 amended: when the run has finished, every identifier the loader
\* produced has at least one output record carrying it, whatever the API
\* answered: in v1 that is every non-empty line, in v2 every line that
\* contains at least one digit (v2 skips a line without digits).
C2_EveryLoadedIdentifier ==
    Finished =>
       /\ \A i \in 1..Len(cnpjs_to_process) :
             \E j \in 1..Len(all_results) : all_results[j].cnpj = cnpjs_to_process[i]
       /\ \A i \in 1..Len(FileLines) :
             (IF variant = "v1" THEN NonEmptyLine(FileLines[i]) ELSE HasDigit(FileLines[i]))
                => \E j \in 1..Len(all_results) :
                      all_results[j].cnpj = Normalized(FileLines[i])

\* C2 witness: a finished v2 run over a file with a digit-free line and a
\* line with digits, whose query ran out of attempts.
C2_Witness ==
    /\ Finished
    /\ variant = "v2"
    /\ Len(FileLines) = 2
    /\ \E i \in 1..2 : NonEmptyLine(FileLines[i]) /\ ~HasDigit(FileLines[i])
    /\ Len(hist) = 1
    /\ hist[1].result = None
    /\ Len(all_results) = 1

\* ------------------------------------------------------------------------
\* C3: one record per partner
\* ------------------------------------------------------------------------
\* The identifier at position i was processed once and the query returned a
\* payload that is no error answer and lists at least one partner.
HasPartners(i) ==
    /\ Occurrences(cnpjs_to_process[i]) = 1
    /\ ~IsAbsent(hist[i].result)
    /\ ~HasErrorStatus(hist[i].result)
    /\ Len(PartnersOf(hist[i].result)) >= 1

\* C3 as stated: in both variants, an identifier processed once whose
\* payload lists N >= 1 partners has exactly N output records, one per
\* partner in payload order.
C3_OneRecordPerPartner ==
    Finished =>
       \A i \in 1..Len(hist) :
          HasPartners(i) =>
             LET qsa == PartnersOf(hist[i].result)
                 recs == RecordsOf(cnpjs_to_process[i])
             IN  /\ Len(recs) = Len(qsa)
                 /\ \A j \in 1..Len(recs) :
                       "nome_qsa" \in DOMAIN recs[j]
                          => recs[j]["nome_qsa"] = ExpectedName(qsa[j])

\* C3 amended: in cnpj_request.py such an identifier has exactly N output
\* records, one per partner in payload order (name and qualification, each
\* 'N/A' when blank); in cnpj_requestv2.py it has exactly one output
\* record, whose 'dono' field is the N partner names in payload order
\* joined by '/'.
C3_PerPartnerV1JoinedV2 ==
    Finished =>
       \A i \in 1..Len(hist) :
          HasPartners(i) =>
             LET qsa == PartnersOf(hist[i].result)
                 recs == RecordsOf(cnpjs_to_process[i])
             IN  IF variant = "v1"
                 THEN /\ Len(recs) = Len(qsa)
                      /\ \A j \in 1..Len(recs) :
                            /\ recs[j]["nome_qsa"] = ExpectedName(qsa[j])
                            /\ recs[j]["qualificacao_qsa"] = ExpectedQual(qsa[j])
                 ELSE /\ Len(recs) = 1
                      /\ recs[1]["dono"] =
                            Join([j \in 1..Len(qsa) |-> ExpectedName(qsa[j])], <<"/">>)

\* C3 witness: a finished v1 run in which an identifier got a payload with
\* two different partners.
C3_Witness ==
    /\ Finished
    /\ variant = "v1"
    /\ \E i \in 1..Len(hist) :
          /\ HasPartners(i)
          /\ Len(PartnersOf(hist[i].result)) = 2
          /\ PartnersOf(hist[i].result)[1] # PartnersOf(hist[i].result)[2]
          /\ Len(RecordsOf(cnpjs_to_process[i])) = 2

\* ------------------------------------------------------------------------
\* C4: placeholder record for an absent or error answer
\* ------------------------------------------------------------------------
\* C4: in both variants, an identifier (processed once) whose query
\* returned nothing or a payload with status 'ERROR' has exactly one output
\* record, and every field of it other than the identifier is 'N/A'.
C4_PlaceholderOnError ==
    Finished =>
       \A i \in 1..Len(hist) :
          (/\ Occurrences(cnpjs_to_process[i]) = 1
           /\ (IsAbsent(hist[i].result) \/ HasErrorStatus(hist[i].result)))
             => LET recs == RecordsOf(cnpjs_to_process[i]) IN
                /\ Len(recs) = 1
                /\ AllPlaceholder(recs[1])

\* ------------------------------------------------------------------------
\* C5: HTTP 429 k times, then success
\* ------------------------------------------------------------------------
\* C5: when the first k answers (1 <= k <= 4) are HTTP 429 and the next is
\* a success, the query returns that payload on attempt k+1, having slept
\* k times, each sleep strictly longer than the one before; and after k
\* answers of 429 (k <= 4) the client does send the next request.
C5_RateLimitedThenSuccess ==
    /\ \A k \in 1..(MAX_API_RETRIES - 1) :
          (Len(responses) = k + 1 /\ AllCode("429", k) /\ responses[k + 1].code = "ok")
             => /\ pc \in {"process", "pace", "write", "done"}
                /\ pc = "process" => api_response_data = responses[k + 1].body
                /\ api_response_data # None
                /\ attempt_number = k + 1
                /\ Len(waits) = k
                /\ \A i \in 1..Len(waits) : waits[i].after = "429"
                /\ \A i \in 1..(Len(waits) - 1) : waits[i].dur < waits[i + 1].dur
    /\ \A k \in 1..(MAX_API_RETRIES - 1) :
          (Len(responses) = k /\ AllCode("429", k)) => pc = "request"

\* C5 witness: 429, 429, success; the payload came back on the third attempt.
C5_Witness ==
    /\ pc = "process"
    /\ Len(responses) = 3
    /\ AllCode("429", 2)
    /\ responses[3].code = "ok"
    /\ api_response_data = responses[3].body
    /\ attempt_number = 3

\* ------------------------------------------------------------------------
\* C6: retries exhausted
\* ------------------------------------------------------------------------
\* C6: whatever the mix of failing answers, the query sends at most 5
\* requests for one identifier and then returns nothing; the driver of
\* cnpj_request.py then records exactly one record for the identifier,
\* with 'N/A' in every other field, and processes every remaining
\* identifier (v2: exactly one record carrying the identifier, and the run
\* goes on likewise).
C6_GiveUpAfterFive ==
    /\ Len(responses) <= 5
    /\ (Len(responses) = 5 /\ AllFailed)
          => /\ pc # "request"
             /\ pc = "process" => api_response_data = None
    /\ (pc = "process" /\ api_response_data = None)
          => (Len(responses) = 5 /\ AllFailed)
    /\ \A i \in 1..Len(hist) :
          hist[i].result = None =>
             /\ hist[i].n = 1
             /\ all_results[hist[i].first].cnpj = cnpjs_to_process[i]
             /\ variant = "v1" => AllPlaceholder(all_results[hist[i].first])
    /\ pc \in {"write", "done"} /\ cnpjs_to_process # <<>>
          => Len(hist) = Len(cnpjs_to_process)
    /\ pc \in {"pace", "request", "process"} => Len(hist) = index - 1

\* C6 witness: a finished v1 run of two identifiers; the first one's query
\* ran out of attempts and the second was processed after it.
C6_Witness ==
    /\ Finished
    /\ variant = "v1"
    /\ Len(cnpjs_to_process) = 2
    /\ Len(hist) = 2
    /\ hist[1].result = None
    /\ hist[2].result # None
    /\ AllPlaceholder(all_results[1])

\* ------------------------------------------------------------------------
\* C7: global pacing
\* ------------------------------------------------------------------------
\* C7: every request of a run, first attempt or retry, is sent at least 20
\* time units after the previous request completed.
C7_GlobalPacing ==
    request_gap # None => request_gap[1] >= 20

\* ------------------------------------------------------------------------
\* C8: HTTP 429 and the attempt counter
\* ------------------------------------------------------------------------
Is429Step ==
    /\ Len(responses') = Len(responses) + 1
    /\ responses'[Len(responses')].code = "429"

\* C8 as stated: an HTTP 429 answer does not advance the attempt counter.
C8_SameAttemptSlot ==
    [][Is429Step => attempt_number' = attempt_number]_vars

\* C8 amended: an HTTP 429 answer uses up one of the 5 attempts like any
\* other failure: the request after it runs under the next attempt number,
\* so the attempt number is always one more than the answers received, and
\* five answers of 429 end the query with nothing returned.
C8_429UsesAttempt ==
    /\ pc = "request" => attempt_number = Len(responses) + 1
    /\ (Len(responses) = 5 /\ AllCode("429", 5))
          => /\ pc # "request"
             /\ pc = "process" => api_response_data = None

\* C8 witness: two answers of 429 received, the third attempt is next.
C8_Witness ==
    /\ pc = "request"
    /\ Len(responses) = 2
    /\ AllCode("429", 2)
    /\ attempt_number = 3

\* ------------------------------------------------------------------------
\* C9: one shared multiplier per identifier
\* ------------------------------------------------------------------------
\* C9: the i-th backoff sleep of one identifier lasts 2^(i-1) * 5 after an
\* HTTP 429 and 2^(i-1) * 2 after any other request error, the multiplier
\* being 2^(sleeps so far) for this identifier whatever happened to the
\* identifiers before it.
C9_SharedMultiplier ==
    /\ \A i \in 1..Len(waits) :
          waits[i].dur = Pow2(i - 1) * (IF waits[i].after = "429" THEN 5 ELSE 2)
    /\ pc = "request" => backoff_factor = Pow2(Len(waits))

\* C9 witness: the second identifier's sleeps after a 429 and after an
\* error, the first identifier having slept too.
C9_Witness ==
    /\ pc = "request"
    /\ index = 2
    /\ hist[1].result = None
    /\ Len(waits) = 2
    /\ waits[1].after = "error"
    /\ waits[2].after = "429"
    /\ waits[1].dur = 2
    /\ waits[2].dur = 10

\* ------------------------------------------------------------------------
\* C10: no sleep after the final attempt
\* ------------------------------------------------------------------------
\* C10: when the query has returned, its last request was not followed by
\* a backoff sleep: there is one sleep fewer than requests, also when the
\* fifth attempt failed with HTTP 429.
C10_NoSleepAfterLastAttempt ==
    pc = "process" => Len(waits) = Len(responses) - 1

====
